---------------------------- MODULE Spec2Model ----------------------------
(***************************************************************************)
(* Model of the heater controller firmware in src/src/main.rs:             *)
(*   - the Mutex-guarded Shared record (setpoint, rms_current),            *)
(*   - the GET /heater/power and GET /heater/current handlers,             *)
(*   - measurement_task (batch RMS of ADC samples),                        *)
(*   - ssr_control_task (time-proportioning of the SSR pin).               *)
(*                                                                         *)
(* f32 values are modelled in fixed point.  A setpoint is a record         *)
(* [t, m]: t = "fin" with m the value in thousandths, t = "inf" with       *)
(* m = 1 / -1 for +/- infinity, t = "nan" for NaN.  Option<f32> adds       *)
(* t = "none".  The inputs enumerated below are exactly representable in   *)
(* f32 (multiples of 1/8) or are not rounding ties, so the fixed-point     *)
(* arithmetic gives the results the f32 arithmetic gives on them.          *)
(* Currents are integers in milliamperes, sums of squares in mA^2.         *)
(* Strings are sequences of one-character strings.                         *)
(***************************************************************************)
EXTENDS Integers, Sequences, FiniteSets, TLC

VARIABLES
    shared,     \* the Shared record behind the Mutex
    lock,       \* owner of the Mutex: "free" or the context holding it
    last_writer,\* history: the context whose store set the current setpoint
    hpc,        \* power handler h: position in the closure
    query,      \* power handler h: the (k, v) pairs of the request's query
    new_sp,     \* power handler h: local new_sp (Option<f32>)
    hsp,        \* power handler h: local sp read back at line 152
    resp,       \* power handler h: the setpoint written in the response
    stores,     \* history: the stores made by handler h's current request
    tpc,        \* telemetry handler: position in the closure
    trms,       \* telemetry handler: local rms
    tresp,      \* telemetry handler: the value written in the response
    mpc,        \* measurement_task: position
    slot,       \* measurement_task: iterations of `for _ in 0..BATCH` done
    sum_sq,     \* measurement_task: local sum_sq
    cnt,        \* measurement_task: local cnt
    rms,        \* measurement_task: local rms of the publish branch
    accepted,   \* history: currents accepted since the batch loop was entered
    failed,     \* history: acquisitions failed since the batch loop was entered
    sampled,    \* history: TRUE once any acquisition has succeeded
    apc,        \* ssr_control_task: position
    asp,        \* ssr_control_task: local sp
    on_ms,      \* ssr_control_task: local on_ms
    pin,        \* level last commanded on the SSR pin
    holds,      \* history: the delays executed so far in this period
    cmds,       \* history: the pin commands issued so far in this period
    snaps,      \* history: the reads of the setpoint so far in this period
    fresh       \* history: TRUE when no store has followed the task's last read

hvars == <<hpc, query, new_sp, hsp, resp, last_writer, stores>>
tvars == <<tpc, trms, tresp>>
mvars == <<mpc, slot, sum_sq, cnt, rms, accepted, failed, sampled>>
avars == <<apc, asp, on_ms, pin, holds, cmds, snaps, fresh>>
vars  == <<shared, lock, hvars, tvars, mvars, avars>>

----------------------------------------------------------------------------
(* f32 values                                                              *)

Fin(m) == [t |-> "fin", m |-> m]
NaN    == [t |-> "nan", m |-> 0]
PInf   == [t |-> "inf", m |-> 1]
NInf   == [t |-> "inf", m |-> -1]
None   == [t |-> "none", m |-> 0]

\* a < b on f32: false whenever an operand is NaN
FLt(a, b) ==
    CASE a.t = "nan" \/ b.t = "nan" -> FALSE
      [] a.t = "fin" /\ b.t = "fin" -> a.m < b.m
      [] a.t = "inf" /\ b.t = "fin" -> a.m < 0
      [] a.t = "fin" /\ b.t = "inf" -> b.m > 0
      [] OTHER                      -> a.m < b.m

\* f32::clamp without its lower test
ClampNoLower(x, lo, hi) == IF FLt(hi, x) THEN hi ELSE x

\* f32::clamp without its upper test
ClampNoUpper(x, lo, hi) == IF FLt(x, lo) THEN lo ELSE x

\* f32::clamp: if self < min { min } else if self > max { max } else { self }
Clamp(x, lo, hi) ==
    IF FLt(x, lo) THEN lo ELSE IF FLt(hi, x) THEN hi ELSE x

----------------------------------------------------------------------------
(* str::parse::<f32>                                                       *)

DigitChars == <<"0", "1", "2", "3", "4", "5", "6", "7", "8", "9">>
IsDigit(c) == \E d \in 1..10 : DigitChars[d] = c
DigitVal(c) == (CHOOSE d \in 1..10 : DigitChars[d] = c) - 1

Lower(c) ==
    CASE c = "I" -> "i" [] c = "N" -> "n" [] c = "F" -> "f"
      [] c = "A" -> "a" [] c = "T" -> "t" [] c = "Y" -> "y"
      [] OTHER -> c

LowerStr(s) == [i \in 1..Len(s) |-> Lower(s[i])]

AllDigits(s) == \A i \in 1..Len(s) : IsDigit(s[i])

RECURSIVE DigitsVal(_)
DigitsVal(s) ==
    IF s = <<>> THEN 0
    ELSE 10 * DigitsVal(SubSeq(s, 1, Len(s) - 1)) + DigitVal(s[Len(s)])

\* the fraction digits as thousandths (digits past the third are below the
\* model's resolution)
FracMilli(f) ==
    LET d(i) == IF i <= Len(f) THEN DigitVal(f[i]) ELSE 0
    IN  100 * d(1) + 10 * d(2) + d(3)

\* digits [ "." digits ], at least one digit: the magnitude in thousandths
ParseDecimal(s) ==
    LET dots == {i \in 1..Len(s) : s[i] = "."}
    IN  IF dots = {}
        THEN IF s # <<>> /\ AllDigits(s) THEN Fin(1000 * DigitsVal(s)) ELSE None
        ELSE LET p  == CHOOSE i \in dots : \A j \in dots : i <= j
                 ip == SubSeq(s, 1, p - 1)
                 fp == SubSeq(s, p + 1, Len(s))
             IN  IF AllDigits(ip) /\ AllDigits(fp) /\ Len(ip) + Len(fp) > 0
                 THEN Fin(1000 * DigitsVal(ip) + FracMilli(fp))
                 ELSE None

\* v.parse::<f32>().ok(): optional sign, then inf / infinity / nan in any
\* case, or a decimal number
ParseF32(s) ==
    LET signed == s # <<>> /\ s[1] \in {"+", "-"}
        neg    == s # <<>> /\ s[1] = "-"
        body   == IF signed THEN Tail(s) ELSE s
        low    == LowerStr(body)
        mag    == ParseDecimal(body)
    IN  CASE low = <<"n", "a", "n">> -> NaN
          [] low = <<"i", "n", "f">> -> IF neg THEN NInf ELSE PInf
          [] low = <<"i", "n", "f", "i", "n", "i", "t", "y">> ->
                 IF neg THEN NInf ELSE PInf
          [] OTHER -> IF mag.t = "fin" /\ neg THEN Fin(0 - mag.m) ELSE mag

Off == <<"o", "f", "f">>

\* the value one p parameter would assign if a failed parse meant 0.0
SetpointOrZero(v) ==
    IF v = Off THEN Fin(0)
    ELSE LET x == ParseF32(v)
         IN  IF x.t = "none" THEN Fin(0) ELSE Clamp(x, Fin(0), Fin(1000))

\* the value one p parameter assigns to new_sp (lines 142-146)
SetpointOf(v) ==
    IF v = Off THEN Fin(0)
    ELSE LET x == ParseF32(v)
         IN  IF x.t = "none" THEN None ELSE Clamp(x, Fin(0), Fin(1000))

\* one iteration if a p that does not parse left new_sp as it was
LoopBodyKeepsValid(acc, kv) ==
    IF kv.k = <<"p">> /\ SetpointOf(kv.v) # None THEN SetpointOf(kv.v) ELSE acc

\* one iteration of `for (k, v)`: only a pair whose key is p assigns new_sp
LoopBody(acc, kv) == IF kv.k = <<"p">> THEN SetpointOf(kv.v) ELSE acc

\* new_sp after the loop has run over the pairs i.. of q, starting from acc
RECURSIVE NewSp(_, _, _)
NewSp(q, i, acc) ==
    IF i > Len(q) THEN acc ELSE NewSp(q, i + 1, LoopBody(acc, q[i]))

\* format!("{:.2}", sp): the value in hundredths, ties to even
Format2(x) ==
    IF x.t # "fin" THEN x
    ELSE LET a == IF x.m < 0 THEN 0 - x.m ELSE x.m
             q == a \div 10
             r == a % 10
             h == IF r > 5 \/ (r = 5 /\ q % 2 = 1) THEN q + 1 ELSE q
         IN  Fin(IF x.m < 0 THEN 0 - h ELSE h)

----------------------------------------------------------------------------
(* Constants of the tasks and the inputs enumerated                        *)

PERIOD  == 100      \* ms
BATCH   == 3        \* samples per batch; the firmware's 100 scaled down
VREF_MV == 3300     \* VREF, in millivolts
ADC_MAX == 4095
V_ZERO_MV == 1500   \* V_ZERO, in millivolts
SENSE_MV  == 66     \* SENSE, in millivolts per ampere
I32_MAX == 2147483647

\* raw readings the ADC returns in the model: about -1 A and about 3 A
RawSet == {1779, 2107}

\* the raw readings of the specifications that run every task
FewRaws == {2107}

P(v) == [k |-> <<"p">>, v |-> v]
X(v) == [k |-> <<"x">>, v |-> v]

\* the p values of the requests
PValues == {
    Off, <<"a", "b", "c">>, <<>>,
    <<"0">>, <<"0", ".", "1", "2", "5">>, <<"0", ".", "5">>, <<"1">>,
    <<"-", "0", ".", "5">>, <<"2">>,
    <<"i", "n", "f">>, <<"-", "i", "n", "f">>, <<"N", "a", "N">> }

\* the queries of the requests: no p, one p, a key other than p, several p
Queries ==
    {<<>>} \cup {<<P(v)>> : v \in PValues}
    \cup { <<X(<<"1">>)>>,
           <<P(<<"0", ".", "5">>), X(<<"1">>)>>,
           <<P(<<"0", ".", "5">>), P(<<"a", "b", "c">>)>>,
           <<P(<<"a", "b", "c">>), P(<<"1">>)>> }

\* the queries of the specifications that run every task
FewQueries ==
    { <<P(Off)>>, <<P(<<"0", ".", "5">>)>>, <<P(<<"2">>)>>,
      <<P(<<"N", "a", "N">>)>> }

\* the queries of the requests that run beside the actuator task
StaleQueries == { <<P(Off)>>, <<P(<<"0", ".", "8">>)>>, <<P(<<"1">>)>> }

Handlers == {"h1", "h2"}

----------------------------------------------------------------------------
(* measurement_task arithmetic                                             *)

\* integer quotient rounded toward zero
TruncDiv(a, b) == IF a >= 0 THEN a \div b ELSE 0 - ((0 - a) \div b)

\* lines 213-214: raw -> volts -> amperes, here millivolts -> milliamperes
CurrentOf(raw) ==
    LET v == (raw * VREF_MV) \div ADC_MAX
    IN  TruncDiv((v - V_ZERO_MV) * 1000, SENSE_MV)

\* f32::sqrt on a non-negative value, to the model's resolution
RECURSIVE SqrtBetween(_, _, _)
SqrtBetween(x, lo, hi) ==
    IF lo >= hi THEN lo
    ELSE LET mid == (lo + hi + 1) \div 2
         IN  IF mid * mid <= x THEN SqrtBetween(x, mid, hi)
             ELSE SqrtBetween(x, lo, mid - 1)

Sqrt(x) == SqrtBetween(x, 0, 46340)

----------------------------------------------------------------------------
(* ssr_control_task arithmetic                                             *)

\* (sp * PERIOD as f32).round() as u32: round half away from zero, then a
\* saturating cast (NaN -> 0, negative -> 0, above u32::MAX -> u32::MAX;
\* the model's integers end at I32_MAX, which stands for u32::MAX)
OnMs(sp) ==
    CASE sp.t = "nan" -> 0
      [] sp.t = "inf" -> IF sp.m > 0 THEN I32_MAX ELSE 0
      [] OTHER        -> IF sp.m < 0 THEN 0
                         ELSE (sp.m * PERIOD + 500) \div 1000

----------------------------------------------------------------------------
(* Initial state: main() up to the spawn of the tasks and the server       *)

Init ==
    /\ shared = [setpoint |-> Fin(0), rms_current |-> 0]
    /\ lock = "free"
    /\ last_writer = "main"
    /\ hpc = [h \in Handlers |-> "idle"]
    /\ query = [h \in Handlers |-> <<>>]
    /\ new_sp = [h \in Handlers |-> None]
    /\ hsp = [h \in Handlers |-> None]
    /\ resp = [h \in Handlers |-> None]
    /\ stores = [h \in Handlers |-> 0]
    /\ tpc = "idle"
    /\ trms = 0
    /\ tresp = -1
    /\ mpc = "sample"
    /\ slot = 0
    /\ sum_sq = 0
    /\ cnt = 0
    /\ rms = 0
    /\ accepted = <<>>
    /\ failed = 0
    /\ sampled = FALSE
    /\ apc = "snap"
    /\ asp = Fin(0)
    /\ on_ms = 0
    /\ pin = "low"
    /\ holds = <<>>
    /\ cmds = <<>>
    /\ snaps = 0
    /\ fresh = FALSE

----------------------------------------------------------------------------
(* Mutex<Shared>                                                           *)

\* a lock() that never blocks
LockNeverBlocks == TRUE

\* Mutex::lock returns only while no other guard is alive
CanLock == lock = "free"

\* the owner if a guard outlived its statement
GuardKept == lock

\* the guard is a temporary: it is dropped, and the Mutex unlocked, at the
\* end of the statement that took it
Released == "free"

----------------------------------------------------------------------------
(* GET /heater/power handler, lines 137-156                                *)

\* lines 138-149: a request arrives with query q; the loop decides new_sp
Request(h, Q) ==
    /\ hpc[h] = "idle"
    /\ \E q \in Q :
         /\ query' = [query EXCEPT ![h] = q]
         /\ new_sp' = [new_sp EXCEPT ![h] = NewSp(q, 1, None)]
         /\ hpc' = [hpc EXCEPT ![h] =
                      IF NewSp(q, 1, None) = None THEN "readback" ELSE "store"]
    /\ hsp' = [hsp EXCEPT ![h] = None]
    /\ resp' = [resp EXCEPT ![h] = None]
    /\ stores' = [stores EXCEPT ![h] = 0]
    /\ UNCHANGED <<shared, lock, last_writer, tvars, mvars, avars>>

\* line 150: shared.lock().unwrap()
LockStore(h) ==
    /\ hpc[h] = "store"
    /\ CanLock
    /\ lock' = h
    /\ hpc' = [hpc EXCEPT ![h] = "storing"]
    /\ UNCHANGED <<shared, query, new_sp, hsp, resp, last_writer, stores,
                   tvars, mvars, avars>>

\* line 150: .setpoint = sp
Store(h) ==
    /\ hpc[h] = "storing"
    /\ shared' = [shared EXCEPT !.setpoint = new_sp[h]]
    /\ last_writer' = h
    /\ fresh' = FALSE
    /\ stores' = [stores EXCEPT ![h] = stores[h] + 1]
    /\ hpc' = [hpc EXCEPT ![h] = "stored"]
    /\ UNCHANGED <<lock, query, new_sp, hsp, resp, tvars, mvars,
                   apc, asp, on_ms, pin, holds, cmds, snaps>>

\* line 150: the guard is dropped at the end of the statement
UnlockStore(h) ==
    /\ hpc[h] = "stored"
    /\ lock' = Released
    /\ hpc' = [hpc EXCEPT ![h] = "readback"]
    /\ UNCHANGED <<shared, query, new_sp, hsp, resp, last_writer, stores,
                   tvars, mvars, avars>>

\* line 152: shared.lock().unwrap()
LockReadBack(h) ==
    /\ hpc[h] = "readback"
    /\ CanLock
    /\ lock' = h
    /\ hpc' = [hpc EXCEPT ![h] = "reading"]
    /\ UNCHANGED <<shared, query, new_sp, hsp, resp, last_writer, stores,
                   tvars, mvars, avars>>

\* the value read back if the handler reused its local new_sp
LocalSetpoint(h) == IF new_sp[h] = None THEN shared.setpoint ELSE new_sp[h]

\* line 152: the setpoint field behind the guard
StoredSetpoint(h) == shared.setpoint

\* line 152: let sp = ... .setpoint
ReadBack(h) ==
    /\ hpc[h] = "reading"
    /\ hsp' = [hsp EXCEPT ![h] = StoredSetpoint(h)]
    /\ hpc' = [hpc EXCEPT ![h] = "read"]
    /\ UNCHANGED <<shared, lock, query, new_sp, resp, last_writer, stores,
                   tvars, mvars, avars>>

\* line 152: the guard is dropped at the end of the statement
UnlockReadBack(h) ==
    /\ hpc[h] = "read"
    /\ lock' = Released
    /\ hpc' = [hpc EXCEPT ![h] = "respond"]
    /\ UNCHANGED <<shared, query, new_sp, hsp, resp, last_writer, stores,
                   tvars, mvars, avars>>

\* lines 153-155: the response carries "setpoint={:.2}"
Respond(h) ==
    /\ hpc[h] = "respond"
    /\ resp' = [resp EXCEPT ![h] = Format2(hsp[h])]
    /\ hpc' = [hpc EXCEPT ![h] = "idle"]
    /\ UNCHANGED <<shared, lock, query, new_sp, hsp, last_writer, stores,
                   tvars, mvars, avars>>

----------------------------------------------------------------------------
(* GET /heater/current handler, lines 165-170                              *)

\* line 166: shared.lock().unwrap()
TLock ==
    /\ tpc = "idle"
    /\ CanLock
    /\ lock' = "t"
    /\ tpc' = "reading"
    /\ tresp' = -1
    /\ UNCHANGED <<shared, trms, hvars, mvars, avars>>

\* line 166: let rms = ... .rms_current
TRead ==
    /\ tpc = "reading"
    /\ trms' = shared.rms_current
    /\ tpc' = "read"
    /\ UNCHANGED <<shared, lock, tresp, hvars, mvars, avars>>

\* line 166: the guard is dropped at the end of the statement
TUnlock ==
    /\ tpc = "read"
    /\ lock' = Released
    /\ tpc' = "respond"
    /\ UNCHANGED <<shared, trms, tresp, hvars, mvars, avars>>

\* lines 167-169: "{:.3}" of a value in amperes is the value in milliamperes
TRespond ==
    /\ tpc = "respond"
    /\ tresp' = trms
    /\ tpc' = "idle"
    /\ UNCHANGED <<shared, lock, trms, hvars, mvars, avars>>

----------------------------------------------------------------------------
(* measurement_task, lines 201-241                                         *)

\* lines 210-217: adc.read returns Ok(raw)
AdcOk(R) ==
    /\ mpc = "sample"
    /\ slot < BATCH
    /\ \E raw \in R :
         LET i == CurrentOf(raw)
         IN  /\ sum_sq' = sum_sq + i * i
             /\ accepted' = Append(accepted, i)
    /\ cnt' = cnt + 1
    /\ slot' = slot + 1
    /\ sampled' = TRUE
    /\ UNCHANGED <<mpc, rms, failed, shared, lock, hvars, tvars, avars>>

\* lines 210, 218-219: adc.read returns Err(e)
AdcErr ==
    /\ mpc = "sample"
    /\ slot < BATCH
    /\ mpc' = "backoff"
    /\ failed' = failed + 1
    /\ UNCHANGED <<slot, sum_sq, cnt, rms, accepted, sampled,
                   shared, lock, hvars, tvars, avars>>

\* the slot count after `continue` if the failed slot were tried again
SlotRetried(n) == n

\* the slot count after `continue`: the range iterator has advanced
SlotAfter(n) == n + 1

\* lines 221-222: Ets::delay_ms(10); continue
Backoff ==
    /\ mpc = "backoff"
    /\ slot' = SlotAfter(slot)
    /\ mpc' = "sample"
    /\ UNCHANGED <<sum_sq, cnt, rms, accepted, failed, sampled,
                   shared, lock, hvars, tvars, avars>>

\* the else branch if it published nothing
ZeroBranchSkips == "delay"

\* lines 234-236: the else branch goes on to publish
ZeroBranch == "lock0"

\* line 228: the for loop is over; if cnt > 0 { .. } else { .. }
Branch ==
    /\ mpc = "sample"
    /\ slot >= BATCH
    /\ mpc' = IF cnt > 0 THEN "rms" ELSE ZeroBranch
    /\ UNCHANGED <<slot, sum_sq, cnt, rms, accepted, failed, sampled,
                   shared, lock, hvars, tvars, avars>>

\* the root mean square with the batch size as the divisor
BatchRmsOverBatch(s, c) == Sqrt(s \div BATCH)

\* line 229: (sum_sq / cnt as f32).sqrt()
BatchRms(s, c) == Sqrt(s \div c)

\* line 229
ComputeRms ==
    /\ mpc = "rms"
    /\ rms' = BatchRms(sum_sq, cnt)
    /\ mpc' = "lock"
    /\ UNCHANGED <<slot, sum_sq, cnt, accepted, failed, sampled,
                   shared, lock, hvars, tvars, avars>>

\* lines 230, 236: shared.lock().unwrap()
MLock ==
    /\ mpc \in {"lock", "lock0"}
    /\ CanLock
    /\ lock' = "m"
    /\ mpc' = IF mpc = "lock" THEN "store" ELSE "store0"
    /\ UNCHANGED <<slot, sum_sq, cnt, rms, accepted, failed, sampled,
                   shared, hvars, tvars, avars>>

\* the value of the else branch if it flagged the failure
NoSignalError == 0 - 1

\* the value of the else branch if it kept the last computed rms
NoSignalStale == rms

\* line 236: the literal 0.0
NoSignal == 0

\* the record if the task rebuilt it to publish v
PublishedWhole(v) == [setpoint |-> Fin(0), rms_current |-> v]

\* lines 230, 236: the assignment goes to the field rms_current alone
Published(v) == [shared EXCEPT !.rms_current = v]

\* line 230: .rms_current = rms;  line 236: .rms_current = 0.0
MStore ==
    /\ mpc \in {"store", "store0"}
    /\ shared' = Published(IF mpc = "store" THEN rms ELSE NoSignal)
    /\ mpc' = IF mpc = "store" THEN "stored" ELSE "stored0"
    /\ UNCHANGED <<slot, sum_sq, cnt, rms, accepted, failed, sampled,
                   lock, hvars, tvars, avars>>

\* lines 230, 236: the guard is dropped at the end of the statement
MUnlock ==
    /\ mpc \in {"stored", "stored0"}
    /\ lock' = Released
    /\ mpc' = IF mpc = "stored" THEN "reset" ELSE "delay"
    /\ UNCHANGED <<slot, sum_sq, cnt, rms, accepted, failed, sampled,
                   shared, hvars, tvars, avars>>

\* the count if the reset left it out
CntKept == cnt

\* line 233: cnt = 0
CntReset == 0

\* lines 232-233: sum_sq = 0.0; cnt = 0
Reset ==
    /\ mpc = "reset"
    /\ sum_sq' = 0
    /\ cnt' = CntReset
    /\ mpc' = "delay"
    /\ UNCHANGED <<slot, rms, accepted, failed, sampled,
                   shared, lock, hvars, tvars, avars>>

\* line 240 and the next entry into the for loop
BatchDelay ==
    /\ mpc = "delay"
    /\ slot' = 0
    /\ accepted' = <<>>
    /\ failed' = 0
    /\ mpc' = "sample"
    /\ UNCHANGED <<sum_sq, cnt, rms, sampled, shared, lock, hvars, tvars, avars>>

----------------------------------------------------------------------------
(* ssr_control_task, lines 252-267                                         *)

\* line 253: shared.lock().unwrap(), the first step of a period
ALock ==
    /\ apc = "snap"
    /\ CanLock
    /\ lock' = "a"
    /\ apc' = "reading"
    /\ holds' = <<>>
    /\ cmds' = <<>>
    /\ snaps' = 0
    /\ UNCHANGED <<fresh, asp, on_ms, pin, shared, hvars, tvars, mvars>>

\* the snapshot if the task kept the value of its first read
SnapshotKept == asp

\* line 253: the setpoint field behind the guard
Snapshot == shared.setpoint

\* line 253: let sp = ... .setpoint
ARead ==
    /\ apc = "reading"
    /\ asp' = Snapshot
    /\ snaps' = snaps + 1
    /\ fresh' = TRUE
    /\ apc' = "read"
    /\ UNCHANGED <<on_ms, pin, holds, cmds, shared, lock, hvars, tvars, mvars>>

\* line 253: the guard is dropped at the end of the statement
AUnlock ==
    /\ apc = "read"
    /\ lock' = Released
    /\ apc' = "compute"
    /\ UNCHANGED <<snaps, fresh, asp, on_ms, pin, holds, cmds, shared, hvars, tvars, mvars>>

\* line 254
Compute ==
    /\ apc = "compute"
    /\ on_ms' = OnMs(asp)
    /\ apc' = "drive"
    /\ UNCHANGED <<snaps, fresh, asp, pin, holds, cmds, shared, lock, hvars, tvars, mvars>>

\* where the task would go if a failed write ended it
AfterWriteHalts(ok, next) == IF ok THEN next ELSE "halted"

\* `let _ =` discards the result of the write: the task goes on either way
AfterWrite(ok, next) == next

\* let _ = ssr.set_high() / set_low(): the write may fail, the result is
\* discarded
SetPin(level, next) ==
    /\ \E ok \in BOOLEAN :
         /\ pin' = IF ok THEN level ELSE pin
         /\ apc' = AfterWrite(ok, next)
    /\ cmds' = Append(cmds, level)

\* lines 255-256
DriveLow ==
    /\ apc = "drive"
    /\ on_ms = 0
    /\ SetPin("low", "hold_full")
    /\ UNCHANGED <<snaps, fresh, asp, on_ms, holds, shared, lock, hvars, tvars, mvars>>

\* the test of line 258 with > in place of >=
FullyOnStrict(on) == on > PERIOD

\* line 258: on_ms >= PERIOD
FullyOn(on) == on >= PERIOD

\* lines 258-259
DriveHigh ==
    /\ apc = "drive"
    /\ on_ms # 0
    /\ FullyOn(on_ms)
    /\ SetPin("high", "hold_full")
    /\ UNCHANGED <<snaps, fresh, asp, on_ms, holds, shared, lock, hvars, tvars, mvars>>

\* lines 257, 260: Ets::delay_ms(PERIOD)
HoldFull ==
    /\ apc = "hold_full"
    /\ holds' = Append(holds, PERIOD)
    /\ apc' = "snap"
    /\ UNCHANGED <<snaps, fresh, asp, on_ms, pin, cmds, shared, lock, hvars, tvars, mvars>>

\* lines 261-262
DriveOn ==
    /\ apc = "drive"
    /\ on_ms # 0
    /\ ~FullyOn(on_ms)
    /\ SetPin("high", "hold_on")
    /\ UNCHANGED <<snaps, fresh, asp, on_ms, holds, shared, lock, hvars, tvars, mvars>>

\* line 263: Ets::delay_ms(on_ms)
HoldOn ==
    /\ apc = "hold_on"
    /\ holds' = Append(holds, on_ms)
    /\ apc' = "drive_off"
    /\ UNCHANGED <<snaps, fresh, asp, on_ms, pin, cmds, shared, lock, hvars, tvars, mvars>>

\* line 264
DriveOff ==
    /\ apc = "drive_off"
    /\ SetPin("low", "hold_off")
    /\ UNCHANGED <<snaps, fresh, asp, on_ms, holds, shared, lock, hvars, tvars, mvars>>

\* the low hold if it lasted a whole period
OffMsWhole(on) == PERIOD

\* line 265: PERIOD - on_ms
OffMs(on) == PERIOD - on

\* on_ms if the setpoint were read again inside the period
RereadOnMs == OnMs(shared.setpoint)

\* line 265: the on_ms computed at line 254
PeriodOnMs == on_ms

\* line 265: Ets::delay_ms(PERIOD - on_ms)
HoldOff ==
    /\ apc = "hold_off"
    /\ holds' = Append(holds, OffMs(PeriodOnMs))
    /\ apc' = "snap"
    /\ UNCHANGED <<snaps, fresh, asp, on_ms, pin, cmds, shared, lock, hvars, tvars, mvars>>

----------------------------------------------------------------------------
(* Specifications                                                          *)

Handler(h, Q) ==
    \/ Request(h, Q)
    \/ LockStore(h)
    \/ Store(h)
    \/ UnlockStore(h)
    \/ LockReadBack(h)
    \/ ReadBack(h)
    \/ UnlockReadBack(h)
    \/ Respond(h)

Telemetry == TLock \/ TRead \/ TUnlock \/ TRespond

Measurement(R) ==
    \/ AdcOk(R)
    \/ AdcErr
    \/ Backoff
    \/ Branch
    \/ ComputeRms
    \/ MLock
    \/ MStore
    \/ MUnlock
    \/ Reset
    \/ BatchDelay

Actuator ==
    \/ ALock
    \/ ARead
    \/ AUnlock
    \/ Compute
    \/ DriveLow
    \/ DriveHigh
    \/ HoldFull
    \/ DriveOn
    \/ HoldOn
    \/ DriveOff
    \/ HoldOff

\* the whole program: both tasks, a power request and a telemetry request
Next ==
    \/ Handler("h1", FewQueries)
    \/ Telemetry
    \/ Measurement(FewRaws)
    \/ Actuator

Spec == Init /\ [][Next]_vars

\* the power handler, one request at a time, and the actuator task
NextPower ==
    \/ Handler("h1", Queries)
    \/ Actuator

SpecPower == Init /\ [][NextPower]_vars

\* two power requests handled concurrently
NextRequests == \E h \in Handlers : Handler(h, FewQueries)

SpecRequests == Init /\ [][NextRequests]_vars

\* the measurement task and a telemetry request
NextMeasure ==
    \/ Measurement(RawSet)
    \/ Telemetry

SpecMeasure == Init /\ [][NextMeasure]_vars

\* the measurement task and the telemetry request under fair scheduling:
\* the task always takes its next step, a request that holds the guard goes
\* on to release it, and a task that waits for the guard gets it
SpecMeasureFair ==
    /\ SpecMeasure
    /\ WF_vars(Measurement(RawSet))
    /\ SF_vars(MLock)
    /\ WF_vars(TRead \/ TUnlock)

\* the steps of a request after its arrival
Progress(h) ==
    \/ LockStore(h)
    \/ Store(h)
    \/ UnlockStore(h)
    \/ LockReadBack(h)
    \/ ReadBack(h)
    \/ UnlockReadBack(h)
    \/ Respond(h)

\* the power handler and the actuator task under fair scheduling: the task
\* always takes its next step and gets the guard it waits for, and a request
\* that has arrived runs to its end
SpecPowerFair ==
    /\ SpecPower
    /\ WF_vars(Actuator)
    /\ SF_vars(ALock)
    /\ WF_vars(Progress("h1"))

\* two power requests handled concurrently, and the actuator task
NextControl ==
    \/ \E h \in Handlers : Handler(h, StaleQueries)
    \/ Actuator

SpecControl == Init /\ [][NextControl]_vars

----------------------------------------------------------------------------
(* Properties                                                              *)

InUnitRange(x) == x.t = "fin" /\ 0 <= x.m /\ x.m <= 1000

\* the values of the p parameters of a query, in order
PsOf(q) ==
    LET ps == SelectSeq(q, LAMBDA kv : kv.k = <<"p">>)
    IN  [i \in 1..Len(ps) |-> ps[i].v]

\* the p value that decides the request: the last one
LastP(q) == PsOf(q)[Len(PsOf(q))]

\* C1: in every reachable state the stored setpoint lies in [0.0, 1.0], and
\* so does every value the actuator snapshots or a request reads back.
C1_SetpointInRange ==
    /\ InUnitRange(shared.setpoint)
    /\ InUnitRange(asp)
    /\ \A h \in Handlers : hsp[h] # None => InUnitRange(hsp[h])

\* C2: right after the write step of a request whose p is a finite number v,
\* the stored setpoint is v limited to [0, 1]; if its p is the off token, the
\* stored setpoint is 0.0.
C2_StoredIsClamped ==
    \A h \in Handlers :
        hpc[h] = "stored" =>
            LET v == LastP(query[h])
                x == ParseF32(v)
            IN  /\ v = Off => shared.setpoint = Fin(0)
                /\ (v # Off /\ x.t = "fin") =>
                       shared.setpoint =
                           IF x.m < 0 THEN Fin(0)
                           ELSE IF x.m > 1000 THEN Fin(1000) ELSE x

\* a request with p=2 has just stored 1.0
C2_Witness ==
    \E h \in Handlers :
        /\ hpc[h] = "stored"
        /\ query[h] = <<P(<<"2">>)>>
        /\ shared.setpoint = Fin(1000)

\* r is x written with two decimals
Rendered(r, x) ==
    IF x.t = "fin" THEN r.t = "fin" /\ r.m * 10 - x.m \in -5..5 ELSE r = x

\* the query has no p, or its deciding p is neither off nor a float
Unparsable(q) ==
    \/ PsOf(q) = <<>>
    \/ (LastP(q) # Off /\ ParseF32(LastP(q)).t = "none")

\* C3: no step of a request whose p is unparsable or missing changes the
\* stored setpoint or the stored rms_current, and the request completes with
\* a response that reports the setpoint as it stands.
C3_UnparsableIsNoOp ==
    /\ [][\A h \in Handlers :
            (hpc'[h] # hpc[h] /\ Unparsable(query'[h])) => shared' = shared]_vars
    /\ [](\A h \in Handlers :
            (hpc[h] = "idle" /\ resp[h] # None /\ Unparsable(query[h])) =>
                Rendered(resp[h], shared.setpoint))

\* a request with p=abc has completed while the setpoint was 0.5 and has
\* reported 0.50
C3_Witness ==
    \E h \in Handlers :
        /\ hpc[h] = "idle"
        /\ query[h] = <<P(<<"a", "b", "c">>)>>
        /\ resp[h] = Fin(50)
        /\ shared.setpoint = Fin(500)

\* the deciding p of the query is a number below 0.0 / above 1.0
Below(q) == PsOf(q) # <<>> /\ LastP(q) # Off /\ FLt(ParseF32(LastP(q)), Fin(0))
Above(q) == PsOf(q) # <<>> /\ LastP(q) # Off /\ FLt(Fin(1000), ParseF32(LastP(q)))

\* C4 as claimed: the write step of a request whose number lies outside
\* [0.0, 1.0] leaves the stored setpoint as it was.
C4_OutOfRangeRejected ==
    [][\A h \in Handlers :
         (hpc[h] = "storing" /\ hpc'[h] = "stored"
            /\ (Below(query[h]) \/ Above(query[h])))
         => shared'.setpoint = shared.setpoint]_vars

\* C4 as amended: a request whose number lies outside [0.0, 1.0] is not
\* rejected; it stores the nearer bound: 0.0 for a number below 0.0, 1.0 for
\* a number above 1.0 (infinities included).
C4_OutOfRangeClamped ==
    \A h \in Handlers :
        hpc[h] = "stored" =>
            /\ Below(query[h]) => shared.setpoint = Fin(0)
            /\ Above(query[h]) => shared.setpoint = Fin(1000)

\* a request with p=-inf has just replaced the setpoint 1.0 by 0.0
C4_Witness ==
    \E h \in Handlers :
        /\ hpc[h] = "stored"
        /\ query[h] = <<P(<<"-", "i", "n", "f">>)>>
        /\ shared.setpoint = Fin(0)
        /\ asp = Fin(1000)

\* C5 as claimed: the response of a request that carried a valid value
\* reports the value this same request stored.
C5_ReportsOwnValue ==
    \A h \in Handlers :
        (hpc[h] = "idle" /\ resp[h] # None /\ new_sp[h] # None) =>
            Rendered(resp[h], new_sp[h])

\* C5 as amended: the response of a request that carried a valid value
\* reports, with two decimals, the setpoint that is in the store at the
\* request's read-back; that is the value this request stored unless another
\* request's write came between this request's write and its read-back, and
\* then it is the value of the latest such write.
C5_ReportsStoredValue ==
    \A h \in Handlers :
        /\ (hpc[h] = "read" /\ new_sp[h] # None) =>
              /\ hsp[h] = shared.setpoint
              /\ last_writer = h => hsp[h] = new_sp[h]
        /\ (hpc[h] = "idle" /\ resp[h] # None /\ new_sp[h] # None) =>
              Rendered(resp[h], hsp[h])

\* a request that stored 0.5 has reported the 0.00 another request stored
\* before the read-back
C5_Witness ==
    \E h \in Handlers :
        /\ hpc[h] = "idle"
        /\ new_sp[h] = Fin(500)
        /\ resp[h] = Fin(0)

\* C6: a value a context has read under the guard is the value of that
\* field in the store for as long as the context holds the guard, whatever
\* the other contexts do meanwhile: no read is torn.
C6_NoTornRead ==
    /\ \A h \in Handlers : hpc[h] = "read" => (lock = h /\ hsp[h] = shared.setpoint)
    /\ tpc = "read" => (lock = "t" /\ trms = shared.rms_current)
    /\ apc = "read" => (lock = "a" /\ asp = shared.setpoint)

\* the telemetry request holds the guard with the rms it has read, after
\* both writers have stored a value and while a power request waits to store
C6_Witness ==
    /\ tpc = "read"
    /\ trms # 0
    /\ shared.setpoint # Fin(0)
    /\ \E h \in Handlers : hpc[h] = "store"

\* C7: when every acquisition of a batch has failed, the task takes the
\* branch without the division and the value it stores is exactly 0.0; the
\* division is only reached with at least one accepted sample.
C7_FailedBatchPublishesZero ==
    /\ (mpc \in {"stored", "stored0"} /\ accepted = <<>>) =>
           (mpc = "stored0" /\ shared.rms_current = 0)
    /\ mpc = "rms" => accepted # <<>>

\* a batch whose acquisitions all failed has stored 0.0 over the non-zero
\* rms of the batch before
C7_Witness ==
    /\ mpc = "stored0"
    /\ failed = BATCH
    /\ rms # 0
    /\ shared.rms_current = 0

RECURSIVE SumOfSquares(_)
SumOfSquares(cs) ==
    IF cs = <<>> THEN 0 ELSE Head(cs) * Head(cs) + SumOfSquares(Tail(cs))

\* C8: the value stored for a batch with k >= 1 accepted samples is the
\* square root of S / k, S being the sum of the squares of the k currents
\* accepted in that batch and of nothing else.
C8_RmsOfAccepted ==
    mpc = "stored" =>
        LET k == Len(accepted)
            S == SumOfSquares(accepted)
            r == shared.rms_current
        IN  /\ 1 <= k /\ k <= BATCH
            /\ r >= 0
            /\ r * r * k <= S
            /\ S < (r + 1) * (r + 1) * k

\* a batch with a failed acquisition and two different accepted currents
\* has stored its rms
C8_Witness ==
    /\ mpc = "stored"
    /\ failed >= 1
    /\ Len(accepted) >= 2
    /\ accepted[1] # accepted[2]

\* C9 as claimed: a failed acquisition does not use up a slot of the batch,
\* so the slots used are the samples accepted.
C9_FailureKeepsSlot ==
    mpc \in {"sample", "backoff"} => slot = Len(accepted)

\* C9 as amended: a failed acquisition does not increment the accepted
\* count and waits the backoff, but it is not tried again: it uses up its
\* slot, so the batch makes exactly BATCH acquisitions, accepted or failed.
C9_FailureUsesSlot ==
    /\ slot <= BATCH
    /\ mpc \in {"sample", "backoff"} => cnt = Len(accepted)
    /\ mpc = "sample" => slot = Len(accepted) + failed
    /\ mpc = "backoff" => slot + 1 = Len(accepted) + failed
    /\ mpc \in {"rms", "lock0"} => Len(accepted) + failed = BATCH

\* after one failed and one accepted acquisition the task is at the third
\* slot
C9_Witness ==
    /\ mpc = "sample"
    /\ failed = 1
    /\ Len(accepted) = 1
    /\ slot = 2

RECURSIVE SumOf(_)
SumOf(ds) == IF ds = <<>> THEN 0 ELSE Head(ds) + SumOf(Tail(ds))

\* C10: on_ms is always within 0..PERIOD, the delays of a completed period
\* add up to PERIOD in each branch, and the setpoint 0.5 gives 50 ms high
\* then 50 ms low.
C10_PeriodSplit ==
    /\ 0 <= on_ms /\ on_ms <= PERIOD
    /\ (apc = "snap" /\ cmds # <<>>) =>
          /\ SumOf(holds) = PERIOD
          /\ asp = Fin(500) => (cmds = <<"high", "low">> /\ holds = <<50, 50>>)

\* a period with the setpoint 0.5 is over
C10_Witness ==
    /\ apc = "snap"
    /\ asp = Fin(500)
    /\ holds = <<50, 50>>

\* the delays of a whole period for the setpoint sp
SplitOf(sp) ==
    IF OnMs(sp) = 0 \/ OnMs(sp) >= PERIOD THEN <<PERIOD>>
    ELSE <<OnMs(sp), PERIOD - OnMs(sp)>>

\* C11: in each period the task reads the setpoint once, before any pin
\* write, and the high and low delays of the period are those of the value
\* read, whatever is stored after the read.
C11_OneSnapshotPerPeriod ==
    /\ apc = "reading" => (snaps = 0 /\ cmds = <<>>)
    /\ apc \notin {"snap", "reading"} => snaps = 1
    /\ cmds # <<>> => snaps = 1
    /\ (apc = "snap" /\ cmds # <<>>) => holds = SplitOf(asp)

\* a period that read 0.5 has ended with 50 ms high and 50 ms low although
\* 1.0 was stored during it
C11_Witness ==
    /\ apc = "snap"
    /\ asp = Fin(500)
    /\ holds = <<50, 50>>
    /\ shared.setpoint = Fin(1000)
    /\ snaps = 1

\* C12: once the task has read the setpoint after the latest write, the
\* period it runs, and every later period until the next write, uses the
\* written value: a write is stale only for the period in progress.  With
\* 0.0 stored (an off request after 0.8) these periods command the pin low
\* only and hold it for the whole period.
C12_StaleOnePeriod ==
    /\ fresh => asp = shared.setpoint
    /\ (fresh /\ shared.setpoint = Fin(0) /\ cmds # <<>>) =>
          (cmds = <<"low">> /\ holds \in {<<>>, <<PERIOD>>})

\* a request stored 0.8 and saw it, another stored off after it, and a
\* period read after that has been low throughout
C12_Witness ==
    \E h, g \in Handlers :
        /\ hpc[h] = "idle" /\ hpc[g] = "idle"
        /\ query[g] = <<P(<<"0", ".", "8">>)>> /\ resp[g] = Fin(80)
        /\ query[h] = <<P(Off)>> /\ last_writer = h
        /\ fresh
        /\ apc = "snap" /\ cmds = <<"low">> /\ holds = <<PERIOD>>

\* C13: under fair scheduling the sampling task stores a value of
\* rms_current again and again, whatever acquisitions succeed or fail, also
\* when all of them fail for ever; a backoff always ends.
C13_PublishesForever ==
    /\ []<>(mpc \in {"stored", "stored0"})
    /\ (mpc = "backoff") ~> (mpc = "sample")

\* no acquisition has ever succeeded and the batch has stored its value
C13_Witness ==
    /\ mpc = "stored0"
    /\ ~sampled
    /\ failed = BATCH

\* C14: under fair scheduling the actuator task starts a period again and
\* again, whether the pin writes succeed or fail, and every period it
\* completes has read the setpoint once and has delayed PERIOD in all.
C14_PinFailureNeverHalts ==
    /\ []<>(apc = "reading")
    /\ []((apc = "snap" /\ cmds # <<>>) =>
            (snaps = 1 /\ SumOf(holds) = PERIOD))

\* a fully-on period is over although its set_high failed
C14_Witness ==
    /\ apc = "snap"
    /\ cmds = <<"high">>
    /\ pin = "low"
    /\ holds = <<PERIOD>>

\* C15: a context holds the lock only from its lock() to the end of the
\* same statement, around the read or the assignment of one field: never
\* during an acquisition, a backoff or hold delay, a pin write or a response.
C15_LockOnlyAroundField ==
    /\ \A h \in Handlers :
          lock = h <=> hpc[h] \in {"storing", "stored", "reading", "read"}
    /\ lock = "t" <=> tpc \in {"reading", "read"}
    /\ lock = "m" <=> mpc \in {"store", "store0", "stored", "stored0"}
    /\ lock = "a" <=> apc \in {"reading", "read"}

\* the telemetry request holds the lock while the sampling task backs off,
\* the actuator task holds the pin high and a power request responds
C15_Witness ==
    /\ lock = "t"
    /\ mpc = "backoff"
    /\ apc = "hold_on"
    /\ \E h \in Handlers : hpc[h] = "respond"

\* C16: the stored rms_current is never negative, it is 0.0 as long as no
\* acquisition has been accepted since startup, and a telemetry request
\* answered in that time reports 0.0.
C16_RmsNonNegative ==
    /\ shared.rms_current >= 0
    /\ ~sampled => shared.rms_current = 0
    /\ (~sampled /\ tpc \in {"read", "respond"}) => trms = 0
    /\ (~sampled /\ tpc = "idle" /\ tresp # -1) => tresp = 0

\* before any acquisition has been accepted a batch has failed, has stored
\* its value, and a telemetry request has reported 0.0
C16_Witness ==
    /\ ~sampled
    /\ mpc = "delay"
    /\ tpc = "idle"
    /\ tresp = 0

\* C17: a step of the sampling task leaves the setpoint as it is, a step of
\* a power request leaves rms_current as it is, and a step of the actuator
\* task or of a telemetry request leaves both fields as they are.
C17_WritersOwnOneField ==
    [][/\ mvars' # mvars => shared'.setpoint = shared.setpoint
       /\ hpc' # hpc => shared'.rms_current = shared.rms_current
       /\ (apc' # apc \/ tpc' # tpc) => shared' = shared]_vars

\* the sampling task has just stored an rms while the setpoint is 0.5; the
\* actuator task and a telemetry request have read both
C17_Witness ==
    /\ mpc = "stored"
    /\ shared.setpoint = Fin(500)
    /\ shared.rms_current # 0
    /\ asp = Fin(500)
    /\ tresp > 0

\* C18: whenever the task enters the batch loop sum_sq and cnt are 0,
\* after a batch that stored an rms as after one that stored 0.0; up to the
\* store they hold the squares and the number of the samples accepted in the
\* batch under way, and cnt never exceeds BATCH.
C18_FreshBatch ==
    /\ (mpc = "sample" /\ slot = 0) => (sum_sq = 0 /\ cnt = 0)
    /\ cnt <= BATCH
    /\ mpc \in {"sample", "backoff", "rms", "lock", "lock0", "store",
                "store0", "stored", "stored0"} =>
          (cnt = Len(accepted) /\ sum_sq = SumOfSquares(accepted))

\* the task enters the loop after a batch that stored 0.0, which followed a
\* batch that stored an rms
C18_Witness ==
    /\ mpc = "sample"
    /\ slot = 0
    /\ sampled
    /\ rms # 0
    /\ shared.rms_current = 0

\* C19: in a period the pin is commanded high at most once and low at most
\* once, high first; a period with on_ms = 0 commands low only, a period
\* with on_ms >= PERIOD commands high only.
C19_OnePulse ==
    /\ cmds \in {<<>>, <<"low">>, <<"high">>, <<"high", "low">>}
    /\ (apc \in {"hold_full", "hold_on", "drive_off", "hold_off"}
          \/ (apc = "snap" /\ cmds # <<>>)) =>
          /\ on_ms = 0 => cmds = <<"low">>
          /\ on_ms >= PERIOD => cmds = <<"high">>
          /\ (0 < on_ms /\ on_ms < PERIOD) =>
                cmds \in {<<"high">>, <<"high", "low">>}

\* a fully-on period is over: one set_high, the pin high, no set_low
C19_Witness ==
    /\ apc = "snap"
    /\ on_ms = PERIOD
    /\ cmds = <<"high">>
    /\ pin = "high"

\* C20: of several p parameters the last one alone decides: the request
\* stores at most once, what it stores is the value of its last p, and when
\* its last p does not parse it stores nothing, whatever an earlier p was.
C20_LastPDecides ==
    \A h \in Handlers :
        /\ stores[h] <= 1
        /\ hpc[h] \in {"store", "storing", "stored"} => ~Unparsable(query[h])
        /\ Unparsable(query[h]) => stores[h] = 0
        /\ hpc[h] = "stored" =>
              /\ stores[h] = 1
              /\ shared.setpoint = SetpointOf(LastP(query[h]))

\* a request with p=0.5&p=abc has completed without a store and has
\* reported the 1.00 that was stored before it
C20_Witness ==
    \E h \in Handlers :
        /\ hpc[h] = "idle"
        /\ query[h] = <<P(<<"0", ".", "5">>), P(<<"a", "b", "c">>)>>
        /\ stores[h] = 0
        /\ resp[h] = Fin(100)
        /\ shared.setpoint = Fin(1000)

============================================================================
